---- MODULE Spec2Model ----
(***************************************************************************)
(* A model of react-aframe-game: the App state machine (src/src/index.js), *)
(* the Detector component and its requestAnimationFrame loop               *)
(* (components/detector/index.js, kept as src/unnamed/part_000), the       *)
(* Camera component (src/src/components/camera/index.js) and the           *)
(* marker detector behind AR.Detector.detect (./aruco, which is not among  *)
(* the sources and is modelled from spec.md sections 4.3 to 4.6).          *)
(*                                                                         *)
(* Spec and its variants see of the Camera what App sees: its <video>      *)
(* element and its onSuccess calls.  SpecCamera follows the Camera's own   *)
(* streams, promises and events.                                           *)
(*                                                                         *)
(* JavaScript runs every handler and every animation-frame callback to     *)
(* completion, so each of them is one action.                              *)
(***************************************************************************)
EXTENDS Integers, Sequences, FiniteSets, TLC

VARIABLES
    status,       \* App.state.status
    camera,       \* App.state.camera: "null" or "video" (the <video> element)
    mounted,      \* the children of FullWrapper that the last render produced
    camVideo,     \* Camera: this.video is set (the <video> element is rendered)
    nInst,        \* number of Detector instances constructed so far
    cur,          \* the mounted Detector instance, 0 when none is mounted
    imageData,    \* per Detector instance: this.imageData
    context,      \* per Detector instance: this.context
    propsCamera,  \* per Detector instance: this.props.camera
    rafNext,      \* callbacks requestAnimationFrame holds for the next frame
    rafNow,       \* callbacks of the running animation frame not yet called
    ticksInFrame, \* per instance: ticks run in the current animation frame
    lastTick,     \* what the most recent tick did (its calls, in order)
    memo,         \* one earlier tick's frame and marker list, kept at will
    feed,         \* which scenes the camera may show: "small" or "all" (fixed)
    winSize,      \* window.innerWidth and window.innerHeight
    dims,         \* per Detector instance: this.width and this.height
    supportsIO,   \* Camera: window.IntersectionObserver exists (fixed)
    camMounted,   \* Camera: the component is mounted
    camError,     \* Camera.state.error: "none" or an error type
    facing,       \* Camera.state.constraints.video.facingMode
    isIntersecting, \* Camera.state.isIntersecting
    mediaStream,  \* Camera.state.mediaStream: a stream, 0 for null
    srcObject,    \* the <video> element's srcObject: a stream, 0 for none
    live,         \* the acquired streams whose tracks are not stopped
    nStreams,     \* number of streams getUserMedia has given so far
    inflight,     \* the getMediaStream calls that await getUserMedia
    resizeListener, \* handleResize is registered on window
    debounce,     \* the debounced resize handler is waiting for its delay
    observing,    \* this.io observes the <video> element
    switchedTo,   \* the mode of the last changeFacingMode that completed
    late          \* what the Camera did after componentWillUnmount

winVars == <<winSize, dims>>

camVars == <<supportsIO, camMounted, camError, facing, isIntersecting,
             mediaStream, srcObject, live, nStreams, inflight,
             resizeListener, debounce, observing, switchedTo, late>>

vars == <<status, camera, mounted, camVideo, nInst, cur, imageData, context,
          propsCamera, rafNext, rafNow, ticksInFrame, lastTick, memo, feed,
          winVars, camVars>>

appVars == <<status, camera, mounted>>
instVars == <<nInst, cur, imageData, context, propsCamera>>
tickVars == <<lastTick, memo>>

----------------------------------------------------------------------------
(* Bounds of the model. *)
MaxStreams == 3

\* Detector instances constructed in one run.
MaxInst == 2
\* Animation-frame callbacks held at once (each re-render may add one).
MaxPending == 3

Insts == 1..MaxInst

----------------------------------------------------------------------------
(* Plane geometry shared by the detector and the overlay. *)

Pt(x, y) == [x |-> x, y |-> y]

Mod4(k) == ((k - 1) % 4) + 1

RECURSIVE SumSeq(_)
SumSeq(s) == IF s = <<>> THEN 0 ELSE Head(s) + SumSeq(Tail(s))

RECURSIVE Flatten(_)
Flatten(ss) == IF ss = <<>> THEN <<>> ELSE Head(ss) \o Flatten(Tail(ss))

----------------------------------------------------------------------------
(* AR.Detector.detect.  ./aruco is not among the sources, so this section  *)
(* follows spec.md: 4.2/4.3 (contours to candidate quadrilaterals), 4.4    *)
(* (sampling the bit grid), 4.5 (decoding, rotation, corner reordering)    *)
(* and 4.6 (deduplication).  A frame is described by what it shows: a      *)
(* sequence of square objects, each a printed marker or a plain blob.      *)

\* Cells of the sampled bit grid, border ring included.
Cells == 1..5
Grid == Cells \X Cells
Border == {p \in Grid : p[1] \in {1, 5} \/ p[2] \in {1, 5}}

\* duplicateCornerEpsilonPx (spec.md section 6).
DuplicateEps == 2
\* Smallest area of a candidate, from minMarkerAreaRatio (spec.md 4.3).
MinArea == 9

\* A sampled grid is the set of its white cells.
Bit(g, p) == IF p \in g THEN 1 ELSE 0

\* The dictionary: the printed pattern of marker id in the marker's own
\* orientation.  The border ring is black; one anchor cell is white and the
\* three other inner corners are black, two cells carry the id, the centre
\* cell is their parity.
Code(id) ==
    {<<2, 2>>}
    \cup (IF id \div 2 = 1 THEN {<<2, 3>>} ELSE {})
    \cup (IF id % 2 = 1 THEN {<<3, 2>>} ELSE {})
    \cup (IF ((id \div 2) + (id % 2)) % 2 = 1 THEN {<<3, 3>>} ELSE {})

\* The grid turned a quarter turn clockwise: row r becomes column 6 - r.
RotCW(g) == {<<p[2], 6 - p[1]>> : p \in g}

RECURSIVE RotTimes(_, _)
RotTimes(g, k) == IF k = 0 THEN g ELSE RotTimes(RotCW(g), k - 1)

\* 4.5 (2)-(4): the border ring is black and the inner bits pass the
\* dictionary's rule.
ValidCode(g) ==
    /\ g \cap Border = {}
    /\ <<2, 2>> \in g
    /\ g \cap {<<2, 4>>, <<4, 4>>, <<4, 2>>, <<3, 4>>, <<4, 3>>} = {}
    /\ Bit(g, <<3, 3>>) = (Bit(g, <<2, 3>>) + Bit(g, <<3, 2>>)) % 2

CodeId(g) == 2 * Bit(g, <<2, 3>>) + Bit(g, <<3, 2>>)

\* The four corners of an axis-parallel square in trace order: the trace
\* starts at the corner the raster scan meets first (top left) and runs
\* clockwise, or counter-clockwise when ccw.
TraceSquare(x, y, s, ccw) ==
    IF ccw
    THEN <<Pt(x, y), Pt(x, y + s), Pt(x + s, y + s), Pt(x + s, y)>>
    ELSE <<Pt(x, y), Pt(x + s, y), Pt(x + s, y + s), Pt(x, y + s)>>

\* Twice the signed area of a quadrilateral (positive: clockwise on screen).
SignedArea2(c) ==
    SumSeq([k \in 1..4 |->
        c[k].x * c[Mod4(k + 1)].y - c[Mod4(k + 1)].x * c[k].y])

\* 4.3: the winding is normalised by the sign of the signed area.
Clockwise(c) == IF SignedArea2(c) < 0 THEN <<c[1], c[4], c[3], c[2]>> ELSE c

\* 4.4: what sampling the quadrilateral in its own corner order gives: a
\* marker turned rot quarter turns shows its pattern turned as often.
Sample(o) ==
    IF o.kind = "marker" THEN RotTimes(Code(o.id), o.rot)
    ELSE Grid

\* 4.2: the contours of one object: its outer border and, when inner
\* borders are traced as well, concentric squares one pixel further in each.
Contours(o) ==
    LET bits == Sample(o)
    IN [k \in 1..o.rings |->
          [pts |-> TraceSquare(o.x + (k - 1), o.y + (k - 1), o.size - 2 * (k - 1), o.ccw),
           side |-> o.size - 2 * (k - 1),
           bits |-> bits]]

\* 4.3: a contour becomes a candidate unless its area is too small.
Candidate(ct) ==
    IF ct.side * ct.side < MinArea THEN <<>>
    ELSE <<[corners |-> Clockwise(ct.pts), perimeter |-> 4 * ct.side,
            bits |-> ct.bits]>>

ObjectCandidates(o) ==
    LET cts == Contours(o)
    IN Flatten([j \in 1..Len(cts) |-> Candidate(cts[j])])

Candidates(frame) ==
    Flatten([k \in 1..Len(frame) |-> ObjectCandidates(frame[k])])

\* 4.5 (4): the rotations that validate.
ValidRotations(bits) == {r \in 0..3 : ValidCode(RotTimes(bits, r))}

\* 4.5 (5): corners reordered by the rotation index.
RotateCorners(c, r) == [k \in 1..4 |-> c[Mod4(k + 4 - r)]]

\* 4.5: the first valid rotation gives (id, rotationIndex); none rejects.
Decode(cand) ==
    LET valid == ValidRotations(cand.bits)
    IN IF valid = {} THEN <<>>
       ELSE LET r == CHOOSE q \in valid : \A q2 \in valid : q <= q2
            IN <<[id |-> CodeId(RotTimes(cand.bits, r)),
                  corners |-> RotateCorners(cand.corners, r),
                  perimeter |-> cand.perimeter]>>

Dist2(p, q) == (p.x - q.x) * (p.x - q.x) + (p.y - q.y) * (p.y - q.y)

\* 4.6: nearly coincident corner sets.
Near(a, b) ==
    \A k \in 1..4 : Dist2(a.corners[k], b.corners[k]) < DuplicateEps * DuplicateEps

\* Mutant of Dropped: the smaller perimeter is preferred.
DroppedLarger(acc, j) ==
    \E i \in 1..Len(acc) :
        /\ i # j
        /\ acc[i].id = acc[j].id
        /\ \A k \in 1..4 : Dist2(acc[i].corners[k], acc[j].corners[k])
                              < DuplicateEps * DuplicateEps
        /\ \/ acc[i].perimeter < acc[j].perimeter
           \/ acc[i].perimeter = acc[j].perimeter /\ i < j

\* 4.6: of two accepted markers with the same id and nearly coincident
\* corners the one with the larger perimeter stays.
Dropped(acc, j) ==
    \E i \in 1..Len(acc) :
        /\ i # j
        /\ acc[i].id = acc[j].id
        /\ Near(acc[i], acc[j])
        /\ \/ acc[i].perimeter > acc[j].perimeter
           \/ acc[i].perimeter = acc[j].perimeter /\ i < j

Dedup(acc) ==
    Flatten([j \in 1..Len(acc) |->
        IF Dropped(acc, j) THEN <<>>
        ELSE <<[id |-> acc[j].id, corners |-> acc[j].corners]>>])

Accepted(frame) ==
    LET cands == Candidates(frame)
    IN Flatten([k \in 1..Len(cands) |-> Decode(cands[k])])

\* 4.6: detect(frame) -> list<Marker>.
Detect(frame) == Dedup(Accepted(frame))

----------------------------------------------------------------------------
(* The scenes the camera may show. *)

MarkerObj(id, rot, x, y, s, rings, ccw) ==
    [kind |-> "marker", id |-> id, rot |-> rot, x |-> x, y |-> y,
     size |-> s, rings |-> rings, ccw |-> ccw]

BlobObj(x, y, s) ==
    [kind |-> "blob", id |-> 0, rot |-> 0, x |-> x, y |-> y,
     size |-> s, rings |-> 1, ccw |-> FALSE]

\* One printed marker: both ids, the four rotations, two positions, traced
\* either way round, with or without the inner border traced too.
OneMarkerScenes ==
    {<<MarkerObj(id, rot, pos[1], pos[2], 5, rings, ccw)>> :
        id \in {1, 2}, rot \in 0..3, pos \in {<<1, 1>>, <<4, 2>>},
        rings \in {1, 2}, ccw \in BOOLEAN}

\* Nothing, a blob, a marker too small, two markers of one id apart, two
\* ids with a blob, and a marker whose border is traced three times.
OtherScenes ==
    { <<>>,
      <<BlobObj(2, 2, 5)>>,
      <<MarkerObj(1, 0, 1, 1, 2, 1, FALSE)>>,
      <<MarkerObj(1, 1, 1, 1, 5, 2, FALSE), MarkerObj(1, 3, 9, 1, 5, 1, TRUE)>>,
      <<MarkerObj(3, 2, 1, 1, 5, 2, FALSE), MarkerObj(0, 0, 1, 9, 5, 2, TRUE),
        BlobObj(9, 9, 4)>>,
      <<MarkerObj(2, 1, 1, 1, 7, 3, FALSE)>> }

AllScenes == OneMarkerScenes \cup OtherScenes

SmallFeed ==
    { <<>>,
      <<MarkerObj(1, 1, 1, 1, 5, 2, FALSE)>>,
      <<MarkerObj(2, 3, 4, 2, 5, 1, TRUE), BlobObj(9, 9, 4)>> }

\* The scenes of a feed.
Shown(name) == IF name = "all" THEN AllScenes ELSE SmallFeed

----------------------------------------------------------------------------
(* The Detector component's overlay: the calls made on the 2D context. *)

Op(name, x, y, w, h) == [op |-> name, x |-> x, y |-> y, w |-> w, h |-> h]
Plain(name) == Op(name, 0, 0, 0, 0)

\* Mutant of Segment: the index of the segment's end does not wrap round.
SegmentNoWrap(corners, j) ==
    LET e == IF j + 2 > Len(corners) THEN Len(corners) ELSE j + 2
    IN << Op("moveTo", corners[j + 1].x, corners[j + 1].y, 0, 0),
          Op("lineTo", corners[e].x, corners[e].y, 0, 0) >>

\* drawCorners, the inner loop: segment j of one marker's outline.
Segment(corners, j) ==
    << Op("moveTo", corners[j + 1].x, corners[j + 1].y, 0, 0),
       Op("lineTo", corners[((j + 1) % Len(corners)) + 1].x,
                    corners[((j + 1) % Len(corners)) + 1].y, 0, 0) >>

\* drawCorners, the body of the outer loop: one marker's outline and square.
Outline(corners) ==
    << Plain("strokeStyle=red"), Plain("beginPath") >>
    \o Flatten([j1 \in 1..Len(corners) |-> Segment(corners, j1 - 1)])
    \o << Plain("stroke"), Plain("closePath"), Plain("strokeStyle=green"),
          Op("strokeRect", corners[1].x - 2, corners[1].y - 2, 4, 4) >>

DrawCorners(markers) ==
    << Plain("lineWidth=2") >>
    \o Flatten([i \in 1..Len(markers) |-> Outline(markers[i].corners)])

\* Mutant of Draw2DImg: the image is drawn at the second corner.
Draw2DImgSecondCorner(markers) ==
    << Plain("new Image") >>
    \o Flatten([i \in 1..Len(markers) |->
          << Plain("save"),
             Op("drawImage", markers[i].corners[2].x, markers[i].corners[2].y, 0, 0),
             Plain("restore") >>])

\* draw2DImg: one image per marker, at its first corner.
Draw2DImg(markers) ==
    << Plain("new Image") >>
    \o Flatten([i \in 1..Len(markers) |->
          << Plain("save"),
             Op("drawImage", markers[i].corners[1].x, markers[i].corners[1].y, 0, 0),
             Plain("restore") >>])

\* Mutant of TickDraw: the drawing functions are called for any list.
TickDrawAlways(markers) == <<"draw2DImg", "drawCorners">>

\* tick, lines 30-33: the functions called once detect has returned.
TickDraw(markers) ==
    IF Len(markers) > 0 THEN <<"draw2DImg", "drawCorners">> ELSE <<>>

\* The context calls of a list of drawing functions, in order.
RECURSIVE DrawOps(_, _)
DrawOps(calls, markers) ==
    IF calls = <<>> THEN <<>>
    ELSE (IF Head(calls) = "draw2DImg" THEN Draw2DImg(markers) ELSE DrawCorners(markers))
         \o DrawOps(Tail(calls), markers)

----------------------------------------------------------------------------
(* The Detector component's state and frame loop. *)

NullImage == [null |-> TRUE, frame |-> <<>>, fresh |-> FALSE]

\* The sizes a window may have.
Sizes == {"360x640", "640x360"}

\* after: the tick before this one was of the same instance and raised;
\* size: the width and height snapshot asked getImageData for.
NoTick ==
    [inst |-> 0, threw |-> FALSE, captured |-> <<>>, arg |-> NullImage,
     markers |-> <<>>, calls |-> <<>>, ops |-> <<>>,
     after |-> FALSE, size |-> "unset"]

NoMemo == [set |-> FALSE, frame |-> <<>>, markers |-> <<>>, other |-> FALSE]

Count(q, i) == Cardinality({k \in 1..Len(q) : q[k] = i})

\* The animation-frame callbacks of instance i that are scheduled.
Pending(i) == Count(rafNext, i) + Count(rafNow, i)

\* What an image held from an earlier tick is once a new tick has begun.
Aged(d) == [d EXCEPT !.fresh = FALSE]

\* Mutant of Snapshot: only the first frame is stored.
SnapshotKeepsFirst(d, f) ==
    IF d.null THEN [null |-> FALSE, frame |-> f, fresh |-> TRUE] ELSE d

\* snapshot: this.imageData after drawing the camera's frame f on the canvas
\* and reading it back.
Snapshot(d, f) == [null |-> FALSE, frame |-> f, fresh |-> TRUE]

\* Mutant of SnapshotSize: the window's size at the time of the tick.
SnapshotSizeOfWindow(i) == winSize

\* The width and height snapshot passes to getImageData.
SnapshotSize(i) == dims[i]

\* The previous tick was of instance i and raised.
AfterRaise(i) == lastTick.inst = i /\ lastTick.threw

\* tick after its first line: snapshot has left img in this.imageData and
\* detect is called with arg.
TickRest(i, f, img, arg) ==
    LET markers == Detect(arg.frame)
        draws == TickDraw(markers)
    IN  /\ imageData' = [imageData EXCEPT ![i] = img]
        /\ lastTick' =
             [inst |-> i, threw |-> FALSE, captured |-> f, arg |-> arg,
              markers |-> markers,
              calls |-> <<"requestAnimationFrame", "snapshot", "detect">> \o draws,
              ops |-> DrawOps(draws, markers),
              after |-> AfterRaise(i),
              size |-> SnapshotSize(i)]

\* Mutant of TickBody: detect is called before snapshot, on the image the
\* previous tick left.
TickBodyDetectFirst(i, f) ==
    /\ rafNow # <<>> /\ Head(rafNow) = i
    /\ rafNow' = Tail(rafNow)
    /\ rafNext' = Append(rafNext, i)
    /\ ticksInFrame' = [ticksInFrame EXCEPT ![i] = @ + 1]
    /\ TickRest(i, f, Snapshot(Aged(imageData[i]), f), Aged(imageData[i]))
    /\ UNCHANGED <<appVars, camVideo, nInst, cur, context, propsCamera, feed,
                   winVars, camVars>>

\* tick of instance i, called by the animation frame while the camera
\* shows f.  snapshot raises when there is no context or no camera.
TickBody(i, f) ==
    /\ rafNow # <<>> /\ Head(rafNow) = i
    /\ rafNow' = Tail(rafNow)
    /\ rafNext' = Append(rafNext, i)
    /\ ticksInFrame' = [ticksInFrame EXCEPT ![i] = @ + 1]
    /\ IF context[i] = "null" \/ propsCamera[i] = "null"
       THEN /\ lastTick' = [NoTick EXCEPT !.inst = i, !.threw = TRUE,
                               !.calls = <<"requestAnimationFrame", "snapshot">>,
                               !.after = AfterRaise(i)]
            /\ UNCHANGED imageData
       ELSE LET img == Snapshot(Aged(imageData[i]), f)
            IN TickRest(i, f, img, img)
    /\ UNCHANGED <<appVars, camVideo, nInst, cur, context, propsCamera, feed,
                   winVars, camVars>>

\* A tick, with its frame and marker list remembered or not for comparison
\* with later ticks; of a remembered tick it is noted whether a later tick
\* captured another frame.
Tick(i, f) ==
    /\ TickBody(i, f)
    /\ memo' \in
         {[memo EXCEPT !.other = @ \/ (memo.set /\ ~lastTick'.threw /\ f # memo.frame)]}
         \cup (IF lastTick'.threw THEN {}
               ELSE {[set |-> TRUE, frame |-> lastTick'.captured,
                      markers |-> lastTick'.markers, other |-> FALSE]})

\* A tick of which nothing is remembered.
PlainTick(i, f) ==
    /\ TickBody(i, f)
    /\ UNCHANGED memo

\* The calls of tick that may raise: getImageData in snapshot, detect, and
\* drawImage in draw2DImg.
RaiseAt == {"snapshot", "detect", "draw2DImg"}

\* What a tick in which the call `at` raises leaves behind: the statements
\* after the call are not executed.
RaisedTick(i, f, at) ==
    LET img == Snapshot(Aged(imageData[i]), f)
        markers == IF at = "draw2DImg" THEN Detect(f) ELSE <<>>
    IN  /\ at = "draw2DImg" => markers # <<>>
        /\ imageData' = [imageData EXCEPT ![i] = IF at = "snapshot" THEN @ ELSE img]
        /\ lastTick' =
             [inst |-> i, threw |-> TRUE, captured |-> f,
              arg |-> IF at = "snapshot" THEN NullImage ELSE img,
              markers |-> markers,
              calls |-> CASE at = "snapshot" ->
                               <<"requestAnimationFrame", "snapshot">>
                          [] at = "detect" ->
                               <<"requestAnimationFrame", "snapshot", "detect">>
                          [] at = "draw2DImg" ->
                               <<"requestAnimationFrame", "snapshot", "detect",
                                 "draw2DImg">>,
              ops |-> IF at = "draw2DImg"
                      THEN <<Plain("new Image"), Plain("save")>> ELSE <<>>,
              after |-> AfterRaise(i),
              size |-> SnapshotSize(i)]

\* Mutant of TickRaises: the next animation frame is requested at the end
\* of tick, which a raising tick does not reach.
TickRaisesUnscheduled(i, f, at) ==
    /\ rafNow # <<>> /\ Head(rafNow) = i
    /\ context[i] # "null" /\ propsCamera[i] # "null"
    /\ rafNow' = Tail(rafNow)
    /\ UNCHANGED rafNext
    /\ ticksInFrame' = [ticksInFrame EXCEPT ![i] = @ + 1]
    /\ RaisedTick(i, f, at)
    /\ UNCHANGED <<appVars, camVideo, nInst, cur, context, propsCamera, feed,
                   memo, winVars, camVars>>

\* tick of instance i in which the call `at` raises: the animation frame
\* was requested on the first line, before the call.
TickRaises(i, f, at) ==
    /\ rafNow # <<>> /\ Head(rafNow) = i
    /\ context[i] # "null" /\ propsCamera[i] # "null"
    /\ rafNow' = Tail(rafNow)
    /\ rafNext' = Append(rafNext, i)
    /\ ticksInFrame' = [ticksInFrame EXCEPT ![i] = @ + 1]
    /\ RaisedTick(i, f, at)
    /\ UNCHANGED <<appVars, camVideo, nInst, cur, context, propsCamera, feed,
                   memo, winVars, camVars>>

\* The browser starts an animation frame: the callbacks registered so far
\* are the ones it calls; those registered meanwhile wait for the next.
AnimationFrame ==
    /\ rafNow = <<>> /\ rafNext # <<>>
    /\ rafNow' = rafNext
    /\ rafNext' = <<>>
    /\ ticksInFrame' = [i \in Insts |-> 0]
    /\ UNCHANGED <<appVars, camVideo, instVars, tickVars, feed, winVars, camVars>>

----------------------------------------------------------------------------
(* App. *)

Statuses == {"init", "detect", "catch", "battle"}

\* Mutant of Render: the Detector stays on the catch screen.
RenderKeepsDetector(s) ==
    {"Camera"}
    \cup (IF s \in {"detect", "catch"} THEN {"Detector"} ELSE {})
    \cup (IF s = "catch" THEN {"Pokeball"} ELSE {})
    \cup (IF s = "battle" THEN {"Pokemon"} ELSE {})

\* render: the children of FullWrapper for a status.
Render(s) ==
    {"Camera"}
    \cup (IF s = "detect" THEN {"Detector"} ELSE {})
    \cup (IF s = "catch" THEN {"Pokeball"} ELSE {})
    \cup (IF s = "battle" THEN {"Pokemon"} ELSE {})

\* The state each handler passes to setState, merged into the state st.
OnCameraSuccessState(st, video) == [st EXCEPT !.camera = video]
OnDetectState(st) == [st EXCEPT !.status = "catch"]
OnCameraControlState(st) == [st EXCEPT !.status = "detect"]

AppState == [status |-> status, camera |-> camera]

\* setState(st): App renders again and React reconciles the Detector: a
\* Detector that stays gets componentWillReceiveProps, a new one is
\* constructed and mounted, one no longer rendered is unmounted.
SetState(st) ==
    /\ rafNow = <<>>
    /\ status' = st.status
    /\ camera' = st.camera
    /\ mounted' = Render(st.status)
    /\ IF "Detector" \in mounted /\ "Detector" \in Render(st.status)
       THEN \* componentWillReceiveProps(nextProps)
            /\ IF st.camera # "null"
               THEN /\ Len(rafNext) < MaxPending
                    /\ rafNext' = Append(rafNext, cur)
               ELSE UNCHANGED rafNext
            /\ propsCamera' = [propsCamera EXCEPT ![cur] = st.camera]
            /\ UNCHANGED <<nInst, cur, imageData, context, dims>>
       ELSE IF "Detector" \in Render(st.status)
       THEN \* constructor, render, componentDidMount
            /\ nInst < MaxInst
            /\ nInst' = nInst + 1
            /\ cur' = nInst + 1
            /\ imageData' = [imageData EXCEPT ![nInst + 1] = NullImage]
            /\ context' = [context EXCEPT ![nInst + 1] = "ctx2d"]
            /\ dims' = [dims EXCEPT ![nInst + 1] = winSize]
            /\ propsCamera' = [propsCamera EXCEPT ![nInst + 1] = st.camera]
            /\ UNCHANGED rafNext
       ELSE \* unmounted, if it was mounted: the instance keeps its fields
            /\ cur' = 0
            /\ UNCHANGED <<nInst, imageData, context, dims, propsCamera, rafNext>>
    /\ UNCHANGED <<camVideo, rafNow, ticksInFrame, tickVars, feed, winSize>>

\* Camera.setVideoStream: with the <video> element rendered, onSuccess is
\* called with it, which is App.onCameraSuccess.
CameraSetVideoStream ==
    /\ camVideo
    /\ SetState(OnCameraSuccessState(AppState, "video"))
    /\ UNCHANGED camVars

\* Camera.getMediaStream fails: error is set, render gives CameraError in
\* place of the <video> element and the ref is cleared.
CameraFails ==
    /\ rafNow = <<>>
    /\ camVideo
    /\ camVideo' = FALSE
    /\ UNCHANGED <<appVars, instVars, rafNext, rafNow, ticksInFrame, tickVars, feed,
                   winVars, camVars>>

\* The onDetect and onControl props are called by their holder.
OnDetect == SetState(OnDetectState(AppState)) /\ UNCHANGED camVars

OnCameraControl == SetState(OnCameraControlState(AppState)) /\ UNCHANGED camVars

\* The window is resized; with handleResize registered, the debounced
\* handler (re)starts its delay.
Resize ==
    /\ rafNow = <<>>
    /\ winSize' \in Sizes \ {winSize}
    /\ debounce' = (debounce \/ resizeListener)
    /\ UNCHANGED <<appVars, camVideo, instVars, dims, rafNext, rafNow, ticksInFrame,
                   tickVars, feed>>
    /\ UNCHANGED <<supportsIO, camMounted, camError, facing, isIntersecting,
                   mediaStream, srcObject, live, nStreams, inflight,
                   resizeListener, observing, switchedTo, late>>

----------------------------------------------------------------------------
(* Camera. *)

\* facingModes and Camera.defaultProps.facingMode.
FacingModes == {"user", "environment"}
DefaultFacingMode == "environment"

NotLate == [request |-> FALSE, success |-> FALSE]

\* The Camera after constructor, render and the synchronous part of
\* componentDidMount: getMediaStream(this.state.constraints) awaits
\* getUserMedia.  io says whether window.IntersectionObserver exists.
CameraInit(io) ==
    /\ supportsIO = io
    /\ camMounted = TRUE
    /\ camError = "none"
    /\ facing = DefaultFacingMode
    /\ isIntersecting = FALSE
    /\ mediaStream = 0
    /\ srcObject = 0
    /\ live = {}
    /\ nStreams = 0
    /\ inflight = <<[kind |-> "mount", facing |-> DefaultFacingMode]>>
    /\ resizeListener = FALSE
    /\ debounce = FALSE
    /\ observing = FALSE
    /\ switchedTo = "none"
    /\ late = NotLate

\* Everything but the Camera's own fields.
programVars ==
    <<appVars, instVars, rafNext, rafNow, ticksInFrame, tickVars, feed, winVars>>

\* The modes changeFacingMode may be called with; "front" is not a key
\* of facingModes.
RequestedModes == FacingModes \cup {"front"}

Without(q, k) == SubSeq(q, 1, k - 1) \o SubSeq(q, k + 1, Len(q))

\* stopMediaStream: the streams with live tracks after it; only the tracks
\* of this.video.srcObject are stopped.
StopMediaStream ==
    IF camVideo /\ srcObject # 0 THEN live \ {srcObject} ELSE live

\* getMediaStream(constraints) up to its await: getUserMedia is asked for
\* facing mode m on behalf of the caller `kind`.
GetMediaStream(kind, m) ==
    /\ nStreams + Len(inflight) < MaxStreams
    /\ inflight' = Append(inflight, [kind |-> kind, facing |-> m])
    /\ late' = [late EXCEPT !.request = @ \/ ~camMounted]

\* setVideoStream with ms in state.mediaStream: with this.video set, the
\* stream is put on the element and onSuccess (App.onCameraSuccess) is
\* called with the element.
SetVideoStream(ms) ==
    IF camVideo
    THEN /\ srcObject' = ms
         /\ SetState(OnCameraSuccessState(AppState, "video"))
    ELSE UNCHANGED <<srcObject, programVars>>

\* The rest of the caller of getMediaStream once the await is over:
\* componentDidMount sets the stream on the video only without an
\* IntersectionObserver, registers handleResize and observes the video;
\* componentDidUpdate, handleResize and changeFacingMode set the stream.
AfterGetMediaStream(req, ms, video) ==
    /\ IF req.kind # "mount" \/ ~supportsIO
       THEN SetVideoStream(ms)
       ELSE UNCHANGED <<srcObject, programVars>>
    /\ resizeListener' = (resizeListener \/ req.kind = "mount")
    /\ observing' = (observing \/ (req.kind = "mount" /\ supportsIO /\ video))

\* getUserMedia of the k-th waiting call gives a stream: getMediaStream
\* stores it in state.mediaStream (setState does nothing once the
\* component is unmounted) and the caller goes on.
CameraResolve(k) ==
    /\ rafNow = <<>>
    /\ k \in 1..Len(inflight)
    /\ LET req == inflight[k]
           ms == IF camMounted THEN nStreams + 1 ELSE mediaStream
       IN  /\ nStreams' = nStreams + 1
           /\ live' = live \cup {nStreams + 1}
           /\ mediaStream' = ms
           /\ inflight' = Without(inflight, k)
           /\ AfterGetMediaStream(req, ms, camVideo)
           /\ switchedTo' = IF req.kind = "facing" /\ camVideo
                             THEN req.facing ELSE switchedTo
    /\ UNCHANGED <<camVideo, supportsIO, camMounted, camError, facing,
                   isIntersecting, debounce, late>>

\* getUserMedia of the k-th waiting call fails: getMediaStream sets
\* state.error, render gives CameraError in place of the <video> element
\* and the ref is cleared; the caller goes on.
CameraReject(k) ==
    /\ rafNow = <<>>
    /\ k \in 1..Len(inflight)
    /\ camError' = IF camMounted THEN "UNSUPPORTED" ELSE camError
    /\ camVideo' = FALSE
    /\ inflight' = Without(inflight, k)
    /\ resizeListener' = (resizeListener \/ inflight[k].kind = "mount")
    /\ UNCHANGED <<programVars, supportsIO, camMounted, facing, isIntersecting,
                   mediaStream, srcObject, live, nStreams, debounce, observing,
                   switchedTo, late>>

\* handleIntersectionObserver with entry.isIntersecting = b, then
\* componentDidUpdate: a video that became visible gets a new stream, one
\* that became invisible has its stream stopped.
CameraIntersect(b) ==
    /\ rafNow = <<>>
    /\ observing /\ camMounted
    /\ b # isIntersecting
    /\ b => camVideo
    /\ isIntersecting' = b
    /\ IF b
       THEN /\ GetMediaStream("update", facing)
            /\ UNCHANGED live
       ELSE /\ live' = StopMediaStream
            /\ UNCHANGED <<inflight, late>>
    /\ UNCHANGED <<programVars, camVideo, supportsIO, camMounted, camError,
                   facing, mediaStream, srcObject, nStreams, resizeListener,
                   debounce, observing, switchedTo>>

\* The delay of the debounced resize handler is over: it asks for a
\* stream with the constraints in state.
CameraResized ==
    /\ rafNow = <<>>
    /\ debounce
    /\ debounce' = FALSE
    /\ GetMediaStream("resize", facing)
    /\ UNCHANGED <<programVars, camVideo, supportsIO, camMounted, camError,
                   facing, isIntersecting, mediaStream, srcObject, live,
                   nStreams, resizeListener, observing, switchedTo>>

\* changeFacingMode(m), called by the SwitchModeButton: a mode that is
\* not a facing mode sets state.error; for a facing mode the stream of
\* the video is stopped and a stream is asked for with m.  state.constraints
\* is not written.
CameraChangeFacingMode(m) ==
    /\ rafNow = <<>>
    /\ camMounted /\ camVideo
    /\ IF m \notin FacingModes
       THEN /\ camError' = "INVALID_FACING_MODE"
            /\ camVideo' = FALSE
            /\ UNCHANGED <<live, inflight, late>>
       ELSE /\ live' = StopMediaStream
            /\ GetMediaStream("facing", m)
            /\ UNCHANGED <<camError, camVideo>>
    /\ UNCHANGED <<programVars, supportsIO, camMounted, facing, isIntersecting,
                   mediaStream, srcObject, nStreams, resizeListener, debounce,
                   observing, switchedTo>>

\* componentWillUnmount: stopMediaStream, then this.io.disconnect(), which
\* raises when there is no IntersectionObserver (this.io is undefined), so
\* that removeEventListener is not reached; the ref is cleared.
CameraUnmount ==
    /\ rafNow = <<>>
    /\ camMounted
    /\ camMounted' = FALSE
    /\ camVideo' = FALSE
    /\ live' = StopMediaStream
    /\ IF supportsIO
       THEN observing' = FALSE /\ resizeListener' = FALSE
       ELSE UNCHANGED <<observing, resizeListener>>
    /\ UNCHANGED <<programVars, supportsIO, camError, facing, isIntersecting,
                   mediaStream, srcObject, nStreams, inflight, debounce,
                   switchedTo, late>>

----------------------------------------------------------------------------
(* Specifications. *)

InitProgram ==
    /\ status = "init"
    /\ camera = "null"
    /\ mounted = Render("init")
    /\ camVideo = TRUE
    /\ nInst = 0
    /\ cur = 0
    /\ imageData = [i \in Insts |-> NullImage]
    /\ context = [i \in Insts |-> "null"]
    /\ propsCamera = [i \in Insts |-> "null"]
    /\ rafNext = <<>>
    /\ rafNow = <<>>
    /\ ticksInFrame = [i \in Insts |-> 0]
    /\ lastTick = NoTick
    /\ memo = NoMemo
    /\ feed = "small"
    /\ winSize = "360x640"
    /\ dims = [i \in Insts |-> "unset"]

Init == InitProgram /\ CameraInit(TRUE)

Next ==
    \/ CameraSetVideoStream
    \/ CameraFails
    \/ OnDetect
    \/ OnCameraControl
    \/ AnimationFrame
    \/ \E i \in Insts, f \in Shown(feed) : Tick(i, f)

Spec == Init /\ [][Next]_vars

\* The program with calls of tick that raise; nothing is remembered of
\* earlier ticks.
NextRaise ==
    \/ CameraSetVideoStream
    \/ CameraFails
    \/ OnDetect
    \/ OnCameraControl
    \/ AnimationFrame
    \/ \E i \in Insts, f \in Shown(feed) : PlainTick(i, f)
    \/ \E i \in Insts, f \in Shown(feed), at \in RaiseAt : TickRaises(i, f, at)

SpecRaise == Init /\ [][NextRaise]_vars

\* The program in a window that is resized; nothing is remembered of
\* earlier ticks.
NextResize ==
    \/ CameraSetVideoStream
    \/ CameraFails
    \/ OnDetect
    \/ OnCameraControl
    \/ Resize
    \/ AnimationFrame
    \/ \E i \in Insts, f \in Shown(feed) : PlainTick(i, f)

SpecResize == Init /\ [][NextResize]_vars

\* The Camera by itself, with or without IntersectionObserver, mounted by
\* an App that stays on its first screen: its promises, its events and
\* its unmounting.
InitCamera == InitProgram /\ \E io \in BOOLEAN : CameraInit(io)

NextCamera ==
    \/ \E k \in 1..MaxStreams : CameraResolve(k)
    \/ \E k \in 1..MaxStreams : CameraReject(k)
    \/ \E b \in BOOLEAN : CameraIntersect(b)
    \/ Resize
    \/ CameraResized
    \/ \E m \in RequestedModes : CameraChangeFacingMode(m)
    \/ CameraUnmount

SpecCamera == InitCamera /\ [][NextCamera]_vars

\* The detector alone: one Detector mounted with the camera on and its
\* loop scheduled (the state after onControl, then onSuccess), the camera
\* showing any of the scenes.
InitDetect ==
    /\ status = "detect"
    /\ camera = "video"
    /\ mounted = Render("detect")
    /\ camVideo = TRUE
    /\ nInst = 1
    /\ cur = 1
    /\ imageData = [i \in Insts |-> NullImage]
    /\ context = [i \in Insts |-> IF i = 1 THEN "ctx2d" ELSE "null"]
    /\ propsCamera = [i \in Insts |-> IF i = 1 THEN "video" ELSE "null"]
    /\ rafNext = <<1>>
    /\ rafNow = <<>>
    /\ ticksInFrame = [i \in Insts |-> 0]
    /\ lastTick = NoTick
    /\ memo = NoMemo
    /\ feed = "all"
    /\ winSize = "360x640"
    /\ dims = [i \in Insts |-> IF i = 1 THEN "360x640" ELSE "unset"]
    /\ CameraInit(TRUE)

NextDetect ==
    \/ AnimationFrame
    \/ \E i \in Insts, f \in Shown(feed) : PlainTick(i, f)

SpecDetect == InitDetect /\ [][NextDetect]_vars

----------------------------------------------------------------------------
(* Properties. *)

\* The last tick got as far as calling detect.
Detected == lastTick.inst # 0 /\ ~lastTick.threw

Calls == lastTick.calls
Called(name) == \E k \in 1..Len(Calls) : Calls[k] = name
Times(name) == Cardinality({k \in 1..Len(Calls) : Calls[k] = name})
Pos(name) == CHOOSE k \in 1..Len(Calls) : Calls[k] = name
DrawCalls == {"draw2DImg", "drawCorners"}

\* C1: in every tick the order is snapshot, detect, drawing; detect is
\* called once, on the image that this tick's snapshot stored (never on
\* null, never on the image of an earlier tick), and the instance holds
\* that image when the tick returns.
C1_DetectConsumesFreshFrame ==
    /\ Detected => Called("detect")
    /\ Called("detect") =>
         /\ Times("snapshot") = 1 /\ Times("detect") = 1
         /\ Pos("snapshot") < Pos("detect")
         /\ \A k \in 1..Len(Calls) : Calls[k] \in DrawCalls => Pos("detect") < k
         /\ ~lastTick.arg.null
         /\ lastTick.arg.fresh
         /\ lastTick.arg.frame = lastTick.captured
         /\ imageData[lastTick.inst] = lastTick.arg

\* C1 witness: a tick of an instance ran detect after an earlier tick had
\* left the image of another frame.
C1_Witness ==
    /\ Detected /\ Called("detect")
    /\ memo.set /\ memo.frame # lastTick.captured

\* C2: at most one tick callback of an instance is scheduled at any time,
\* and an instance runs at most one tick in an animation frame.
C2_OneTickPerFrame ==
    \A i \in Insts : Pending(i) <= 1 /\ ticksInFrame[i] <= 1

\* C3: a tick whose marker list is empty draws nothing, raises nothing and
\* leaves the loop scheduled; draw2DImg and drawCorners are called exactly
\* when the list is not empty.
C3_EmptyListDrawsNothing ==
    Detected =>
        /\ lastTick.markers = <<>> =>
             /\ lastTick.ops = <<>>
             /\ \A k \in 1..Len(Calls) : Calls[k] \notin DrawCalls
             /\ Pending(lastTick.inst) >= 1
        /\ Called("draw2DImg") <=> lastTick.markers # <<>>
        /\ Called("drawCorners") <=> lastTick.markers # <<>>

\* C3 witness: a tick found no marker.
C3_Witness == Detected /\ Called("detect") /\ lastTick.markers = <<>>

IsImage(o) == o.op = "drawImage"
IsPath(o) == o.op \in {"moveTo", "lineTo"}
IsSquare(o) == o.op = "strokeRect"

\* The path calls that precede those of marker i.
PathOffset(ms, i) == SumSeq([k \in 1..(i - 1) |-> 2 * Len(ms[k].corners)])

\* C4: for a non-empty list every marker gets its image at corners[0] and a
\* closed outline: n segments, segment j from corners[j] to
\* corners[(j+1) mod n], every corner the start of one segment and the end
\* of one, the green square at corners[0]; all images are drawn before any
\* outline.
C4_OverlayOutline ==
    (Detected /\ lastTick.markers # <<>>) =>
        LET ms == lastTick.markers
            ops == lastTick.ops
            path == SelectSeq(ops, IsPath)
        IN  /\ SelectSeq(ops, IsImage) =
                 [i \in 1..Len(ms) |->
                    Op("drawImage", ms[i].corners[1].x, ms[i].corners[1].y, 0, 0)]
            /\ SelectSeq(ops, IsSquare) =
                 [i \in 1..Len(ms) |->
                    Op("strokeRect", ms[i].corners[1].x - 2, ms[i].corners[1].y - 2, 4, 4)]
            /\ \A a, b \in 1..Len(ops) :
                 (IsImage(ops[a]) /\ (IsPath(ops[b]) \/ IsSquare(ops[b]))) => a < b
            /\ Len(path) = PathOffset(ms, Len(ms) + 1)
            /\ \A i \in 1..Len(ms) :
                 LET c == ms[i].corners
                     n == Len(c)
                     from(j) == path[PathOffset(ms, i) + 2 * j + 1]
                     to(j) == path[PathOffset(ms, i) + 2 * j + 2]
                 IN /\ \A j \in 0..(n - 1) :
                          /\ from(j) = Op("moveTo", c[j + 1].x, c[j + 1].y, 0, 0)
                          /\ to(j) = Op("lineTo", c[((j + 1) % n) + 1].x,
                                                 c[((j + 1) % n) + 1].y, 0, 0)
                    /\ \A k \in 1..n :
                          /\ Cardinality({j \in 0..(n - 1) :
                                from(j).x = c[k].x /\ from(j).y = c[k].y}) = 1
                          /\ Cardinality({j \in 0..(n - 1) :
                                to(j).x = c[k].x /\ to(j).y = c[k].y}) = 1

\* C4 witness: a tick drew the overlay of two markers.
C4_Witness ==
    /\ Detected /\ Len(lastTick.markers) >= 2
    /\ Called("draw2DImg") /\ Called("drawCorners")

\* C5: status is one of the four, the Detector is rendered exactly on
\* detect, the Pokeball exactly on catch, the Pokemon exactly on battle,
\* none of them on init, the Camera always.
C5_ScreensExclusive ==
    /\ status \in Statuses
    /\ mounted \subseteq {"Camera", "Detector", "Pokeball", "Pokemon"}
    /\ "Camera" \in mounted
    /\ "Detector" \in mounted <=> status = "detect"
    /\ "Pokeball" \in mounted <=> status = "catch"
    /\ "Pokemon" \in mounted <=> status = "battle"
    /\ status = "init" => mounted = {"Camera"}
    /\ cur # 0 <=> status = "detect"

\* C5 witness: the catch screen, reached through the detect screen.
C5_Witness == status = "catch" /\ nInst >= 1 /\ camera = "video"

\* The App states the handlers lead to from a set of App states.
HandlerSteps(S) ==
    S \cup {OnCameraSuccessState(st, "video") : st \in S}
      \cup {OnDetectState(st) : st \in S}
      \cup {OnCameraControlState(st) : st \in S}

RECURSIVE HandlerClosure(_)
HandlerClosure(S) == IF HandlerSteps(S) = S THEN S ELSE HandlerClosure(HandlerSteps(S))

\* The statuses some sequence of handler calls leads to from App state st.
StatusesFrom(st) == {t.status : t \in HandlerClosure({st})}

\* C6: from the constructor's state each of detect, catch and battle is
\* reached by some sequence of the handlers onCameraSuccess,
\* onCameraControl and onDetect.
C6_AllScreensReachable ==
    (status = "init" /\ camera = "null") =>
        {"detect", "catch", "battle"} \subseteq StatusesFrom(AppState)

\* What holds instead: no run shows the battle screen, and from no state
\* does a sequence of handler calls lead to it.
NeverBattle == status # "battle" /\ "battle" \notin StatusesFrom(AppState)

LastAccepted == Accepted(lastTick.captured)

Kept(a) ==
    \E k \in 1..Len(lastTick.markers) :
        lastTick.markers[k] = [id |-> a.id, corners |-> a.corners]

Duplicates(a, b) == a.id = b.id /\ Near(a, b)

ShownCorner(o, k) == TraceSquare(o.x, o.y, o.size, FALSE)[Mod4(k + o.rot)]

\* C9: a frame with one marker of known id, rotation and position gives one
\* Marker with that id, in each of the four rotations, whose corners are the
\* marker's own corners in its own order, so that the image and the green
\* square are drawn at the marker's own first corner.
C9_CanonicalFirstCorner ==
    (Detected /\ lastTick.captured \in OneMarkerScenes) =>
        LET o == lastTick.captured[1]
            ms == lastTick.markers
            first == ShownCorner(o, 1)
        IN  /\ Len(ms) = 1
            /\ ms[1].id = o.id
            /\ ms[1].corners = [k \in 1..4 |-> ShownCorner(o, k)]
            /\ SelectSeq(lastTick.ops, IsImage) = <<Op("drawImage", first.x, first.y, 0, 0)>>
            /\ SelectSeq(lastTick.ops, IsSquare) =
                 <<Op("strokeRect", first.x - 2, first.y - 2, 4, 4)>>

\* C9 witness: a marker turned three quarter turns, traced counter-clockwise
\* with both borders, was detected.
C9_Witness ==
    /\ Detected /\ lastTick.captured \in OneMarkerScenes
    /\ lastTick.captured[1].rot = 3 /\ lastTick.captured[1].ccw
    /\ lastTick.captured[1].rings = 2
    /\ lastTick.markers # <<>>
    /\ lastTick.markers[1].corners[1] # Pt(lastTick.captured[1].x, lastTick.captured[1].y)

\* C10: a Detector mounted with a camera has its frame loop started: a tick
\* of it is scheduled without any further render.
C10_LoopStartsOnMount ==
    (cur # 0 /\ propsCamera[cur] # "null") => Pending(cur) >= 1

\* C11: a tick in which snapshot, detect or drawing raised had requested
\* the next animation frame before, as its first call, so a callback of
\* the instance stays scheduled; and the tick that follows a raising tick
\* of the instance calls detect on the image of its own snapshot, never
\* on what the failed tick left.
C11_RaiseKeepsLoopRunning ==
    /\ (lastTick.inst # 0 /\ lastTick.threw) =>
         /\ Calls[1] = "requestAnimationFrame"
         /\ Pending(lastTick.inst) >= 1
    /\ (lastTick.after /\ Called("detect")) =>
         /\ Pos("snapshot") < Pos("detect")
         /\ ~lastTick.arg.null
         /\ lastTick.arg.fresh
         /\ lastTick.arg.frame = lastTick.captured

\* C11 witness: the tick after a raising tick of the same instance ran to
\* its end and found a marker.
C11_Witness ==
    /\ lastTick.after /\ Detected
    /\ lastTick.markers # <<>>

\* C12: an instance with a tick scheduled, and the instance of the last
\* tick, has a camera and the 2D context; the frame passed to detect has
\* the width and height the instance took at mount; App's camera, once
\* set, is never null again, and an instance's context, width and height
\* never change once set.
C12_SnapshotHasSource ==
    /\ []((\A i \in Insts :
              (Pending(i) >= 1 \/ lastTick.inst = i) =>
                  (/\ propsCamera[i] # "null"
                   /\ context[i] = "ctx2d"
                   /\ dims[i] \in Sizes))
          /\ (Detected => lastTick.size = dims[lastTick.inst]))
    /\ [][(camera # "null" => camera' # "null")
          /\ (\A i \in Insts :
                 /\ propsCamera[i] # "null" => propsCamera'[i] # "null"
                 /\ context[i] # "null" => context'[i] = context[i]
                 /\ dims[i] # "unset" => dims'[i] = dims[i])]_vars

\* C12 witness: a tick ran to its end after the window had been resized
\* to another size than the instance took at mount.
C12_Witness ==
    /\ Detected /\ camera = "video"
    /\ lastTick.size # winSize
    /\ lastTick.arg.frame = lastTick.captured

\* C13: a tick that runs while status is 'detect' and obtains a non-empty
\* marker list calls onDetect.
C13_DetectionCallsOnDetect ==
    [][(/\ rafNow # <<>> /\ rafNow' = Tail(rafNow)
        /\ status = "detect"
        /\ ~lastTick'.threw /\ lastTick'.markers # <<>>)
       => \E k \in 1..Len(lastTick'.calls) : lastTick'.calls[k] = "onDetect"]_vars

\* C14: a Detector instance that is no longer mounted has no
\* animation-frame callback scheduled, so no tick of it runs.
C14_UnmountStopsLoop ==
    \A i \in 1..nInst : i # cur => Pending(i) = 0

\* The video element is rendered and holds a stream with live tracks.
Attached == camVideo /\ srcObject # 0 /\ srcObject \in live

\* C15: at most one acquired stream has live tracks, and a stream with
\* live tracks is the one on the video element, where stopMediaStream
\* reaches it.
C15_OneLiveStream ==
    /\ Cardinality(live) <= 1
    /\ \A x \in live : camVideo /\ srcObject = x

\* C16: with an IntersectionObserver, while the video is not intersecting
\* and no getMediaStream call awaits its stream, no stream with live
\* tracks is on the video element.
C16_StreamFollowsVisibility ==
    (supportsIO /\ camMounted /\ ~isIntersecting /\ inflight = <<>>) => ~Attached

\* C17: after componentWillUnmount handleResize is no longer registered on
\* window, and the component has asked for no stream and has not called
\* onSuccess since.
C17_UnmountTearsDown ==
    ~camMounted => (~resizeListener /\ ~late.request /\ ~late.success)

\* C18: after a changeFacingMode(m) that got its stream and set it on the
\* video, state.constraints.video.facingMode, which later requests and
\* the SwitchModeButton read, is m.
C18_FacingModePersists ==
    switchedTo # "none" => facing = switchedTo

====
